---- MODULE Spec2Model ----
(***************************************************************************)
(* A model of the lazy-initialisation cell LazyTransform<T, U> of          *)
(* src/src/lib.rs.  A cell holds a precursor T until exactly one caller    *)
(* transforms it into a U under the cell's mutex; afterwards the result is *)
(* read without the lock, guarded only by the atomic flag `initialized`.   *)
(*                                                                         *)
(* Two cells are modelled, both built by LazyTransform::new.  Cell "a" is  *)
(* shared by all threads; cell "b" is a variable of the thread Owner, the  *)
(* destination of b = a.clone() and of b.clone_from(&a), whose source is   *)
(* a.  Every method is split into the steps                                *)
(* at which another thread can interleave: each atomic load and store,     *)
(* the lock acquisition, the access to the slot, the return of the         *)
(* transform, the release of the lock and the final lock-free read.        *)
(***************************************************************************)
EXTENDS Integers, Sequences, FiniteSets, TLC

\* ---------------------------------------------------------------- bounds
NumThreads == 2
MaxCalls == 3

Threads == 1 .. NumThreads
Owner == CHOOSE t \in Threads : \A s \in Threads : t <= s
Cells == {"a", "b"}
\* The precursor each cell is constructed with: LazyTransform::new(21) of the
\* tests for a, and a different value for b.
Precursor == [c \in Cells |-> IF c = "a" THEN 21 ELSE 4]

\* ------------------------------------------------------------ the slot
\* Option<ThisOrThat<T, U>>: None, Some(This(t)), Some(That(u)).
None == [tag |-> "None", v |-> 0]
This(t) == [tag |-> "This", v |-> t]
That(u) == [tag |-> "That", v |-> u]
\* The slot of a cell that has been consumed (into_inner, try_into_inner take
\* self by value): the cell is gone.
Moved == [tag |-> "Moved", v |-> 0]

\* ------------------------------------------------------- the transforms
\* The closures handed to the accessors: `|v| v * 2` of the tests, a second
\* succeeding closure (for get_or_create), closures returning Err(e), and a
\* closure that panics.
InfallibleTransforms == {"double", "inc", "panic"}
FallibleTransforms == {"double", "err1", "err2", "panic"}

Apply(f, t) ==
  CASE f = "double" -> [kind |-> "Ok", v |-> 2 * t]
    [] f = "inc" -> [kind |-> "Ok", v |-> t + 1]
    [] f = "err1" -> [kind |-> "Err", v |-> 1]
    [] f = "err2" -> [kind |-> "Err", v |-> 2]
    [] f = "panic" -> [kind |-> "Panic", v |-> 0]

TransformsOf(o) ==
  IF o = "get_or_create" THEN InfallibleTransforms ELSE FallibleTransforms

InitOps == {"get_or_create", "try_get_or_create", "get_or_create_or_poison"}

\* ------------------------------------------------------------- the state
VARIABLES
  initialized,  \* initialized[c]: the AtomicBool
  lock,         \* lock[c]: the thread holding the Mutex, 0 when free
  poisoned,     \* poisoned[c]: the Mutex's poison flag
  value,        \* value[c]: the UnsafeCell's slot
  hist,         \* hist[c]: every content the slot has had (unsynchronised reads)
  pc,           \* pc[t]: the thread's position in its current call
  op,           \* op[t]: the method of the current call
  self,         \* self[t]: the cell of the current call
  this,         \* this[t]: the precursor moved or cloned out of the slot
  ran,          \* ran[t]: the current call has invoked its transform
  last,         \* the call that returned most recently, and what it returned
  invocations,  \* invocations[c]: log of the transform invocations on c
  returned,     \* returned[c]: the result values handed out for c so far,
                \* both since c was constructed or last assigned to
  calls         \* number of calls started

cellVars == <<initialized, lock, poisoned, value, hist>>
ghostVars == <<invocations, returned>>
vars == <<initialized, lock, poisoned, value, hist,
          pc, op, self, this, ran, last, invocations, returned, calls>>

R(k, x) == [kind |-> k, v |-> x]
NoCall == [op |-> "none", self |-> "a", kind |-> "NoRet", v |-> 0, ran |-> FALSE]

\* LazyTransform::new(t), for each of the two cells.
new(t) ==
  /\ initialized = [c \in Cells |-> FALSE]
  /\ lock = [c \in Cells |-> 0]
  /\ poisoned = [c \in Cells |-> FALSE]
  /\ value = [c \in Cells |-> This(t[c])]
  /\ hist = [c \in Cells |-> {This(t[c])}]

Init ==
  /\ new(Precursor)
  /\ pc = [t \in Threads |-> "idle"]
  /\ op = [t \in Threads |-> "none"]
  /\ self = [t \in Threads |-> "a"]
  /\ this = [t \in Threads |-> 0]
  /\ ran = [t \in Threads |-> FALSE]
  /\ last = NoCall
  /\ invocations = [c \in Cells |-> << >>]
  /\ returned = [c \in Cells |-> {}]
  /\ calls = 0

\* ------------------------------------------------------------- helpers
Busy(t) == pc[t] # "idle"

\* The cells a running call of t borrows: its self, and for clone and
\* clone_from both the source a and the destination b.
Uses(t, c) ==
  Busy(t) /\ (self[t] = c \/ op[t] \in {"clone", "clone_from"})

\* The destination b of `b = a.clone()` and of `b.clone_from(&a)` is borrowed
\* exclusively (&mut) for the call.
Holds(t, c) ==
  Busy(t) /\ c = "b" /\ op[t] \in {"clone", "clone_from"}

\* The cell has not been consumed.
Alive(c) == value[c] # Moved

\* A shared borrow of c can be taken: c exists and no call holds c exclusively.
Shared(c) == Alive(c) /\ \A t \in Threads : ~Holds(t, c)

\* Cell a is reachable from every thread, cell b from its owner only.
May(t, c) == c = "a" \/ t = Owner

\* An exclusive borrow of c can be taken: no call is running on c.
Exclusive(c) == \A t \in Threads : ~Uses(t, c)

\* Thread t starts a call of method o on cell c at position l.
Call(t, o, c, l) ==
  /\ pc[t] = "idle"
  /\ calls < MaxCalls
  /\ pc' = [pc EXCEPT ![t] = l]
  /\ op' = [op EXCEPT ![t] = o]
  /\ self' = [self EXCEPT ![t] = c]
  /\ calls' = calls + 1
  /\ UNCHANGED <<cellVars, this, ran, last, ghostVars>>

\* Thread t moves on to position l inside its call.
Goto(t, l) ==
  /\ pc' = [pc EXCEPT ![t] = l]
  /\ UNCHANGED <<op, self, last, calls>>

\* The call of thread t returns r (or unwinds, for the Panic kinds); didRun
\* tells whether it has invoked its transform.
Finish(t, r, didRun) ==
  /\ pc' = [pc EXCEPT ![t] = "idle"]
  /\ op' = [op EXCEPT ![t] = "none"]
  /\ self' = [self EXCEPT ![t] = "a"]
  /\ this' = [this EXCEPT ![t] = 0]
  /\ ran' = [ran EXCEPT ![t] = FALSE]
  /\ last' = [op |-> op[t], self |-> self[t], kind |-> r.kind, v |-> r.v,
              ran |-> didRun]
  /\ UNCHANGED calls

\* Variant: a lock that does not record a panic of its holder.
DropGuardNoPoison(c, panicking) ==
  /\ lock' = [lock EXCEPT ![c] = 0]
  /\ UNCHANGED poisoned

\* The MutexGuard is dropped; it marks the Mutex poisoned when the thread
\* is unwinding from a panic.
DropGuard(c, panicking) ==
  /\ lock' = [lock EXCEPT ![c] = 0]
  /\ poisoned' = [poisoned EXCEPT ![c] = poisoned[c] \/ panicking]

SetValue(c, x) ==
  /\ value' = [value EXCEPT ![c] = x]
  /\ hist' = [hist EXCEPT ![c] = hist[c] \cup {x}]

Log(c, t, out) ==
  invocations' = [invocations EXCEPT
                    ![c] = Append(@, [op |-> op[t], kind |-> out.kind,
                                      v |-> out.v])]

\* ---------------------------------------------- the initializing accessors
\* A thread calls get_or_create, try_get_or_create or get_or_create_or_poison.
CallAccessor(t) ==
  \E o \in InitOps, c \in Cells :
    /\ Shared(c)
    /\ May(t, c)
    /\ Call(t, o, c, "load1")

\* Variant: the flag is not consulted before locking (no fast path).
Load1NoFastPath(t) ==
  /\ pc[t] = "load1"
  /\ Goto(t, "lock")
  /\ UNCHANGED <<cellVars, this, ran, ghostVars>>

\* if !self.initialized.load(Ordering::Acquire)
Load1(t) ==
  /\ pc[t] = "load1"
  /\ Goto(t, IF initialized[self[t]] THEN "extract" ELSE "lock")
  /\ UNCHANGED <<cellVars, this, ran, ghostVars>>

\* Variant: the lock does not exclude a second thread.
LockNoExclusion(t, c, l) ==
  /\ IF poisoned[c]
       THEN /\ Finish(t, R("PanicLock", 0), ran[t])
            /\ UNCHANGED lock
       ELSE /\ lock' = [lock EXCEPT ![c] = t]
            /\ Goto(t, l)
            /\ UNCHANGED <<this, ran>>
  /\ UNCHANGED <<initialized, poisoned, value, hist, ghostVars>>

\* self.lock.lock().unwrap(): waits for the Mutex; on a poisoned Mutex lock()
\* returns Err, unwrap panics and the guard inside the error is dropped again.
LockOrPanic(t, c, l) ==
  /\ lock[c] = 0
  /\ IF poisoned[c]
       THEN /\ Finish(t, R("PanicLock", 0), ran[t])
            /\ UNCHANGED lock
       ELSE /\ lock' = [lock EXCEPT ![c] = t]
            /\ Goto(t, l)
            /\ UNCHANGED <<this, ran>>
  /\ UNCHANGED <<initialized, poisoned, value, hist, ghostVars>>

\* let _lock = self.lock.lock().unwrap();
Lock(t) ==
  /\ pc[t] = "lock"
  /\ LockOrPanic(t, self[t], "load2")

\* Variant: the flag is not checked again under the lock.
Load2NoRecheck(t) ==
  /\ pc[t] = "load2"
  /\ Goto(t, "take")
  /\ UNCHANGED <<cellVars, this, ran, ghostVars>>

\* if !self.initialized.load(Ordering::Relaxed), with the lock held
Load2(t) ==
  /\ pc[t] = "load2"
  /\ Goto(t, IF initialized[self[t]] THEN "unlock" ELSE "take")
  /\ UNCHANGED <<cellVars, this, ran, ghostVars>>

\* Variants: every accessor moves the precursor out; none does.
MovesAlways(o) == TRUE
MovesNever(o) == FALSE

\* try_get_or_create clones the precursor out of the slot (value.as_ref());
\* get_or_create and get_or_create_or_poison move it out (value.take()).
Moves(o) == o # "try_get_or_create"

\* The slot is read for the precursor: `match value.take().unwrap()`,
\* `match value.as_ref().unwrap()`, `match value.take()`.
Take(t) ==
  LET c == self[t]
      old == value[c]
  IN
  /\ pc[t] = "take"
  /\ IF Moves(op[t]) THEN SetValue(c, None) ELSE UNCHANGED <<value, hist>>
  /\ CASE old.tag = "This" ->
            /\ this' = [this EXCEPT ![t] = old.v]
            /\ Goto(t, "call")
            /\ UNCHANGED <<lock, poisoned, ran>>
       [] old.tag = "None" /\ op[t] = "get_or_create_or_poison" ->
            \* None => return Err(None): poisoned by a previous error
            /\ Finish(t, R("ErrNone", 0), ran[t])
            /\ DropGuard(c, FALSE)
       [] old.tag = "None" /\ op[t] # "get_or_create_or_poison" ->
            \* unwrap() of None panics with the lock held
            /\ Finish(t, R("PanicUnwrap", 0), ran[t])
            /\ DropGuard(c, TRUE)
       [] old.tag = "That" ->
            \* panic!(): Can't already be initialized!
            /\ Finish(t, R("PanicInit", 0), ran[t])
            /\ DropGuard(c, TRUE)
  /\ UNCHANGED <<initialized, ghostVars>>

\* Variant: the precursor is put back into the slot when the transform fails.
AfterErrRestore(t, c) == SetValue(c, This(this[t]))

\* `f(this)?` returns early on Err and leaves the slot as it is.
AfterErr(t, c) == UNCHANGED <<value, hist>>

\* The transform f(this) returns (or panics): `*value = Some(That(f(this)))`,
\* with `?` returning the error early in the two fallible accessors.
Invoke(t) ==
  LET c == self[t] IN
  /\ pc[t] = "call"
  /\ \E f \in TransformsOf(op[t]) :
       LET out == Apply(f, this[t]) IN
       /\ Log(c, t, out)
       /\ CASE out.kind = "Ok" ->
                 /\ SetValue(c, That(out.v))
                 /\ Goto(t, "store")
                 /\ this' = [this EXCEPT ![t] = 0]
                 /\ ran' = [ran EXCEPT ![t] = TRUE]
                 /\ UNCHANGED <<lock, poisoned>>
            [] out.kind = "Err" ->
                 /\ Finish(t, R(IF op[t] = "try_get_or_create"
                                  THEN "Err" ELSE "ErrSome", out.v), TRUE)
                 /\ DropGuard(c, FALSE)
                 /\ AfterErr(t, c)
            [] out.kind = "Panic" ->
                 /\ Finish(t, R("PanicF", 0), TRUE)
                 /\ DropGuard(c, TRUE)
                 /\ UNCHANGED <<value, hist>>
  /\ UNCHANGED <<initialized, returned>>

\* self.initialized.store(true, Ordering::Release)
Store(t) ==
  /\ pc[t] = "store"
  /\ initialized' = [initialized EXCEPT ![self[t]] = TRUE]
  /\ Goto(t, "unlock")
  /\ UNCHANGED <<lock, poisoned, value, hist, this, ran, ghostVars>>

\* Variant: the guard is leaked and the lock stays held.
UnlockLeak(t) ==
  /\ pc[t] = "unlock"
  /\ Goto(t, "extract")
  /\ UNCHANGED <<cellVars, this, ran, ghostVars>>

\* _lock goes out of scope at the end of the outer if block.
Unlock(t) ==
  /\ pc[t] = "unlock"
  /\ DropGuard(self[t], FALSE)
  /\ Goto(t, "extract")
  /\ UNCHANGED <<initialized, value, hist, this, ran, ghostVars>>

\* fn extract(&self) -> Option<&U>, as a result or a panic.
extract(c) ==
  CASE value[c].tag = "None" -> R("None", 0)
    [] value[c].tag = "This" -> R("PanicExtract", 0)
    [] value[c].tag = "That" -> R("Some", value[c].v)

\* self.extract().unwrap(), wrapped in Ok by the two fallible accessors.
Extract(t) ==
  LET c == self[t]
      e == extract(c)
  IN
  /\ pc[t] = "extract"
  /\ IF e.kind = "Some"
       THEN /\ Finish(t, R(IF op[t] = "get_or_create" THEN "Ref" ELSE "Ok", e.v),
                      ran[t])
            /\ returned' = [returned EXCEPT ![c] = @ \cup {e.v}]
       ELSE /\ Finish(t, IF e.kind = "None" THEN R("PanicNone", 0) ELSE e,
                      ran[t])
            /\ UNCHANGED returned
  /\ UNCHANGED <<cellVars, invocations>>

\* ------------------------------------------------------------------ get
CallGet(t) ==
  \E c \in Cells :
    /\ Shared(c)
    /\ May(t, c)
    /\ Call(t, "get", c, "gload")

\* if self.initialized.load(Ordering::Acquire) { .. } else { None }
GetLoad(t) ==
  /\ pc[t] = "gload"
  /\ IF initialized[self[t]]
       THEN /\ Goto(t, "gextract")
            /\ UNCHANGED <<this, ran>>
       ELSE Finish(t, R("None", 0), FALSE)
  /\ UNCHANGED <<cellVars, ghostVars>>

\* self.extract()
GetExtract(t) ==
  LET c == self[t]
      e == extract(c)
  IN
  /\ pc[t] = "gextract"
  /\ Finish(t, e, FALSE)
  /\ returned' = [returned EXCEPT
                    ![c] = IF e.kind = "Some" THEN @ \cup {e.v} ELSE @]
  /\ UNCHANGED <<cellVars, invocations>>

\* ---------------------------------------------------------------- clone
\* b = a.clone(): self is cell a, the new cell replaces b.
CallClone(t) ==
  /\ May(t, "b")
  /\ Exclusive("b")
  /\ Shared("a")
  /\ Call(t, "clone", "a", "cload")

\* Variant: the slot is always copied without the lock.
CloneLoadNoLock(t) ==
  /\ pc[t] = "cload"
  /\ Goto(t, "ccopy")
  /\ UNCHANGED <<cellVars, this, ran, ghostVars>>

\* if self.initialized.load(Ordering::Acquire)
CloneLoad(t) ==
  /\ pc[t] = "cload"
  /\ Goto(t, IF initialized[self[t]] THEN "ccopy" ELSE "clock")
  /\ UNCHANGED <<cellVars, this, ran, ghostVars>>

\* The logs of a cell start afresh when the cell is assigned to.
Assigned(c) ==
  /\ invocations' = [invocations EXCEPT ![c] = << >>]
  /\ returned' = [returned EXCEPT ![c] = {}]

\* Variant: the new cell is always built not ready.
ConstructNotReady(i, x, l, p) ==
  /\ initialized' = [initialized EXCEPT !["b"] = FALSE]
  /\ value' = [value EXCEPT !["b"] = x]
  /\ hist' = [hist EXCEPT !["b"] = {x}]
  /\ lock' = [l EXCEPT !["b"] = 0]
  /\ poisoned' = [p EXCEPT !["b"] = FALSE]
  /\ invocations' = [invocations EXCEPT !["b"] = << >>]
  /\ returned' = [returned EXCEPT !["b"] = {}]

\* Self { initialized: i, lock: Mutex::default(), value: x } becomes cell b;
\* l and p are the locks and poison flags as the call leaves them.
Construct(i, x, l, p) ==
  /\ initialized' = [initialized EXCEPT !["b"] = i]
  /\ value' = [value EXCEPT !["b"] = x]
  /\ hist' = [hist EXCEPT !["b"] = {x}]
  /\ lock' = [l EXCEPT !["b"] = 0]
  /\ poisoned' = [p EXCEPT !["b"] = FALSE]
  /\ Assigned("b")

\* The lock-free branch: initialized: true, value: (*self.value.get()).clone()
CloneCopy(t) ==
  /\ pc[t] = "ccopy"
  /\ Construct(TRUE, value[self[t]], lock, poisoned)
  /\ Finish(t, R("Cell", 0), FALSE)

\* let _lock = self.lock.lock().unwrap() of the locked branch
CloneLock(t) ==
  /\ pc[t] = "clock"
  /\ LockOrPanic(t, self[t], "ccopyL")

\* The locked branch: initialized: self.initialized.load(Relaxed), value:
\* (*self.value.get()).clone(); the guard is dropped when clone returns.
CloneCopyLocked(t) ==
  /\ pc[t] = "ccopyL"
  /\ Construct(initialized[self[t]], value[self[t]],
               [lock EXCEPT ![self[t]] = 0], poisoned)
  /\ Finish(t, R("Cell", 0), FALSE)

\* ----------------------------------------------------------- clone_from
\* b.clone_from(&a): self is cell b (borrowed exclusively), source is cell a.
source == "a"

CallCloneFrom(t) ==
  /\ May(t, "b")
  /\ Alive("b")
  /\ Exclusive("b")
  /\ Shared(source)
  /\ Call(t, "clone_from", "b", "fload")

\* if self.initialized.load(Ordering::Acquire): the flag of the destination
CloneFromLoad(t) ==
  /\ pc[t] = "fload"
  /\ Goto(t, IF initialized[self[t]] THEN "fcopy" ELSE "flock")
  /\ UNCHANGED <<cellVars, this, ran, ghostVars>>

\* The largest value of a payload: the precursors and results are u8, as in
\* LazyTransform<u8, u8> of the tests.
PayloadMax == 255

\* What a read of the slot of c without the lock and without an acquire load
\* of c's flag can yield: the content of the slot, or, while another thread is
\* inside c's critical section, a data race with the writes of that thread.
\* Neither the read nor the writes are atomic, and the layout of the slot
\* depends on T and U (the payloads of This and That need not share their
\* bytes, and take() may overwrite them), so the racing read yields any
\* content the slot has had, or a torn one: a tag the slot has had with any
\* payload whatever; a None tag reads as None.
UnsyncRead(c) ==
  LET tags == {x.tag : x \in hist[c]}
      torn == {IF g = "None" THEN None ELSE [tag |-> g, v |-> w] :
                 g \in tags, w \in 0 .. PayloadMax}
  IN IF lock[c] = 0 THEN {value[c]} ELSE hist[c] \cup torn

\* *self.value.get() = x through &mut self: the slot of c is overwritten while
\* no other thread has access to c, so its earlier contents are gone for
\* every later reader.
Overwrite(c, x) ==
  /\ value' = [value EXCEPT ![c] = x]
  /\ hist' = [hist EXCEPT ![c] = {x}]

\* The lock-free branch: *self.value.get() = (*source.value.get()).clone();
\* self.initialized.store(true, Release)
CloneFromCopy(t) ==
  /\ pc[t] = "fcopy"
  /\ \E x \in UnsyncRead(source) : Overwrite(self[t], x)
  /\ initialized' = [initialized EXCEPT ![self[t]] = TRUE]
  /\ Finish(t, R("Unit", 0), FALSE)
  /\ Assigned(self[t])
  /\ UNCHANGED <<lock, poisoned>>

\* let _lock = source.lock.lock().unwrap() of the locked branch
CloneFromLock(t) ==
  /\ pc[t] = "flock"
  /\ LockOrPanic(t, source, "fcopyL")

\* The locked branch: the slot and the flag of source are copied, then the
\* guard is dropped.
CloneFromCopyLocked(t) ==
  /\ pc[t] = "fcopyL"
  /\ Overwrite(self[t], value[source])
  /\ initialized' = [initialized EXCEPT ![self[t]] = initialized[source]]
  /\ DropGuard(source, FALSE)
  /\ Finish(t, R("Unit", 0), FALSE)
  /\ Assigned(self[t])

Next ==
  \E t \in Threads :
    \/ CallAccessor(t)
    \/ Load1(t)
    \/ Lock(t)
    \/ Load2(t)
    \/ Take(t)
    \/ Invoke(t)
    \/ Store(t)
    \/ Unlock(t)
    \/ Extract(t)
    \/ CallGet(t)
    \/ GetLoad(t)
    \/ GetExtract(t)
    \/ CallClone(t)
    \/ CloneLoad(t)
    \/ CloneCopy(t)
    \/ CloneLock(t)
    \/ CloneCopyLocked(t)
    \/ CallCloneFrom(t)
    \/ CloneFromLoad(t)
    \/ CloneFromCopy(t)
    \/ CloneFromLock(t)
    \/ CloneFromCopyLocked(t)

Spec == Init /\ [][Next]_vars

\* ------------------------------------------------- consuming extraction
\* Variant: an empty slot is reported as Err instead of a panic.
into_innerNoUnwrap(x) ==
  CASE x.tag = "That" -> R("Ok", x.v)
    [] OTHER -> R("Err", x.v)

\* fn into_inner(self) -> Result<U, T>: self.value.into_inner().unwrap(),
\* as a result or a panic, of the slot x.
into_inner(x) ==
  CASE x.tag = "None" -> R("PanicEmpty", 0)
    [] x.tag = "This" -> R("Err", x.v)
    [] x.tag = "That" -> R("Ok", x.v)

\* fn try_into_inner(self) -> Result<U, Option<T>>, of the slot x.
try_into_inner(x) ==
  CASE x.tag = "None" -> R("ErrNone", 0)
    [] x.tag = "This" -> R("ErrSome", x.v)
    [] x.tag = "That" -> R("Ok", x.v)

\* Lazy::into_inner: self.inner.into_inner().ok(), of the slot x.
Lazy_into_inner(x) ==
  LET r == into_inner(x) IN
  CASE r.kind = "Ok" -> R("Some", r.v)
    [] r.kind = "Err" -> R("None", 0)
    [] OTHER -> r

\* The owner of the cells consumes cell c by method o, which returns r: no
\* borrow of c is alive, the flag and the lock are not looked at, and the
\* cell is gone afterwards (also when the call panics).
Consume(t, o, c, r) ==
  /\ t = Owner
  /\ pc[t] = "idle"
  /\ calls < MaxCalls
  /\ Exclusive(c)
  /\ SetValue(c, Moved)
  /\ last' = [op |-> o, self |-> c, kind |-> r.kind, v |-> r.v, ran |-> FALSE]
  /\ calls' = calls + 1
  /\ UNCHANGED <<initialized, lock, poisoned, pc, op, self, this, ran,
                 ghostVars>>

IntoInner(t) ==
  \E c \in Cells :
    /\ Alive(c)
    /\ Consume(t, "into_inner", c, into_inner(value[c]))

TryIntoInner(t) ==
  \E c \in Cells :
    /\ Alive(c)
    /\ Consume(t, "try_into_inner", c, try_into_inner(value[c]))

LazyIntoInner(t) ==
  \E c \in Cells :
    /\ Alive(c)
    /\ Consume(t, "Lazy::into_inner", c, Lazy_into_inner(value[c]))

\* Every operation of Next, and the consuming extractions.
NextInner ==
  \/ Next
  \/ \E t \in Threads :
       \/ IntoInner(t)
       \/ TryIntoInner(t)
       \/ LazyIntoInner(t)

SpecInner == Init /\ [][NextInner]_vars

\* ------------------------------------------- the race of the unit tests
\* test_lazy_transform, test_lazy: every thread calls get_or_create on the
\* one fresh cell, with a closure that returns a value.
RaceCall(t) ==
  /\ CallAccessor(t)
  /\ op'[t] = "get_or_create"
  /\ self'[t] = "a"

RaceInvoke(t) ==
  /\ Invoke(t)
  /\ poisoned' = poisoned

NextRace ==
  \E t \in Threads :
    \/ RaceCall(t)
    \/ Load1(t)
    \/ Lock(t)
    \/ Load2(t)
    \/ Take(t)
    \/ RaceInvoke(t)
    \/ Store(t)
    \/ Unlock(t)
    \/ Extract(t)

SpecRace == Init /\ [][NextRace]_vars

\* ------------------------------------------ accessors under fair scheduling
\* Threads call the three initializing accessors on the shared cell a with
\* closures that return a value or an error (none panics, none calls back
\* into the cell), and every thread that can take a step eventually does.
LiveCall(t) ==
  /\ CallAccessor(t)
  /\ self'[t] = "a"

LiveInvoke(t) ==
  /\ Invoke(t)
  /\ last'.kind # "PanicF"

\* The steps of a running call of thread t.
Run(t) ==
  \/ Load1(t)
  \/ Lock(t)
  \/ Load2(t)
  \/ Take(t)
  \/ LiveInvoke(t)
  \/ Store(t)
  \/ Unlock(t)
  \/ Extract(t)

NextLive ==
  \E t \in Threads :
    \/ LiveCall(t)
    \/ Load1(t)
    \/ Lock(t)
    \/ Load2(t)
    \/ Take(t)
    \/ LiveInvoke(t)
    \/ Store(t)
    \/ Unlock(t)
    \/ Extract(t)

SpecLive ==
  /\ Init
  /\ [][NextLive]_vars
  /\ \A t \in Threads : WF_vars(Run(t))

\* ------------------------------------- the race on get_or_create_or_poison
\* Every thread calls get_or_create_or_poison on the one fresh cell a.
PoisonCall(t) ==
  /\ CallAccessor(t)
  /\ op'[t] = "get_or_create_or_poison"
  /\ self'[t] = "a"

NextPoison ==
  \E t \in Threads :
    \/ PoisonCall(t)
    \/ Load1(t)
    \/ Lock(t)
    \/ Load2(t)
    \/ Take(t)
    \/ Invoke(t)
    \/ Store(t)
    \/ Unlock(t)
    \/ Extract(t)

SpecPoison == Init /\ [][NextPoison]_vars

\* ------------------------------------------------------------ reentrance
\* The transform that thread t is running calls an initializing accessor of
\* the same cell.  The outer call stays suspended inside f(this), holding the
\* lock; the positions of the inner call are "in_load1", "in_lock",
\* "in_blocked" (waiting for the lock), and, were it to get there,
\* "in_section" (inside the critical section) and "in_extract" (the final
\* read).
InnerCall(t) ==
  /\ pc[t] = "call"
  /\ calls < MaxCalls
  /\ pc' = [pc EXCEPT ![t] = "in_load1"]
  /\ calls' = calls + 1
  /\ UNCHANGED <<cellVars, op, self, this, ran, last, ghostVars>>

\* if !self.initialized.load(Ordering::Acquire), in the inner call
InnerLoad1(t) ==
  /\ pc[t] = "in_load1"
  /\ Goto(t, IF initialized[self[t]] THEN "in_extract" ELSE "in_lock")
  /\ UNCHANGED <<cellVars, this, ran, ghostVars>>

\* Variant: a reentrant lock lets its holder in again.
InnerLockReentrant(t) ==
  /\ pc[t] = "in_lock"
  /\ lock[self[t]] \in {0, t}
  /\ lock' = [lock EXCEPT ![self[t]] = t]
  /\ Goto(t, "in_section")
  /\ UNCHANGED <<initialized, poisoned, value, hist, this, ran, ghostVars>>

\* self.lock.lock().unwrap() in the inner call.  std's Mutex::lock does not
\* return when the calling thread already holds the lock: it deadlocks or
\* panics.  A panic unwinds through the transform and the outer call, whose
\* guard is dropped while panicking.
InnerLock(t) ==
  LET c == self[t] IN
  /\ pc[t] = "in_lock"
  /\ IF lock[c] = t
       THEN \/ /\ Goto(t, "in_blocked")
               /\ UNCHANGED <<cellVars, this, ran, ghostVars>>
            \/ /\ Finish(t, R("PanicReenter", 0), FALSE)
               /\ DropGuard(c, TRUE)
               /\ Log(c, t, R("Panic", 0))
               /\ UNCHANGED <<initialized, value, hist, returned>>
       ELSE /\ lock[c] = 0
            /\ lock' = [lock EXCEPT ![c] = t]
            /\ Goto(t, "in_section")
            /\ UNCHANGED <<initialized, poisoned, value, hist, this, ran,
                           ghostVars>>

NextReentrant ==
  \E t \in Threads :
    \/ CallAccessor(t)
    \/ Load1(t)
    \/ Lock(t)
    \/ Load2(t)
    \/ Take(t)
    \/ Invoke(t)
    \/ Store(t)
    \/ Unlock(t)
    \/ Extract(t)
    \/ CallGet(t)
    \/ GetLoad(t)
    \/ GetExtract(t)
    \/ InnerCall(t)
    \/ InnerLoad1(t)
    \/ InnerLock(t)

SpecReentrant == Init /\ [][NextReentrant]_vars

\* ------------------------------------------------------------ properties
Entries(c) == 1 .. Len(invocations[c])
Oks(c) == {i \in Entries(c) : invocations[c][i].kind = "Ok"}
LastEntry(c) == invocations[c][Len(invocations[c])]
OkResults(c) == {Apply(f, Precursor[c]).v : f \in {"double", "inc"}}

\* A transform handed to get_or_create_or_poison has returned an error on c.
ErrPoisoned(c) ==
  \E i \in Entries(c) :
    /\ invocations[c][i].op = "get_or_create_or_poison"
    /\ invocations[c][i].kind = "Err"

\* A transform has panicked on c.
Panicked(c) == \E i \in Entries(c) : invocations[c][i].kind = "Panic"

\* The step is the return (or the unwinding) of the call of thread t.
Returns(t) == Busy(t) /\ pc'[t] = "idle"

\* The call that returned last was a call of an initializing accessor on c.
LastInit(c) == last.self = c /\ last.op \in InitOps

\* C1: when threads race on get_or_create of a fresh cell with transforms
\* that return, at most one transform is ever invoked, and every call that
\* has returned has returned the value which that one invocation produced
\* from the precursor of the cell (so exactly one transform was invoked).
C1_OneTransformPerRace ==
  /\ Len(invocations["a"]) <= 1
  /\ last.op = "get_or_create" =>
       /\ last.kind = "Ref"
       /\ Len(invocations["a"]) = 1
       /\ invocations["a"][1].kind = "Ok"
       /\ last.v = invocations["a"][1].v
       /\ last.v \in OkResults("a")

\* C1 witness: the winner has returned its reference and a second caller,
\* which found the flag set under the lock, is about to release the lock.
C1_Witness ==
  /\ last.op = "get_or_create" /\ last.kind = "Ref" /\ last.ran
  /\ \E t \in Threads : pc[t] = "unlock" /\ ~ran[t] /\ self[t] = "a"

\* C2: on cell a at most one transform invocation returns Ok and no
\* invocation follows it; a try_get_or_create that returns Ok returns the
\* result of that invocation; a try_get_or_create returns Err(e) only if its
\* own transform has just been invoked and has failed with e.
C2_TryAtMostOneOk ==
  /\ Cardinality(Oks("a")) <= 1
  /\ \A i \in Oks("a") : i = Len(invocations["a"])
  /\ (last.op = "try_get_or_create" /\ last.self = "a" /\ last.kind = "Ok") =>
       \E i \in Oks("a") : invocations["a"][i].v = last.v
  /\ (last.op = "try_get_or_create" /\ last.self = "a" /\ last.kind = "Err") =>
       /\ last.ran
       /\ \E i \in Entries("a") :
            invocations["a"][i] = [op |-> "try_get_or_create", kind |-> "Err",
                                   v |-> last.v]

\* C2 witness: two failed try_get_or_create invocations came before the
\* successful one, and a try_get_or_create has returned its result.
C2_Witness ==
  /\ Len(invocations["a"]) = 3
  /\ \A i \in 1 .. 3 : invocations["a"][i].op = "try_get_or_create"
  /\ invocations["a"][1].kind = "Err"
  /\ invocations["a"][2].kind = "Err"
  /\ invocations["a"][3].kind = "Ok"
  /\ last.op = "try_get_or_create" /\ last.kind = "Ok"
  /\ last.v = invocations["a"][3].v

\* Every transform invoked on cell a receives the original precursor of a,
\* and a transform that has succeeded has stored its result of that precursor.
TransformsThePrecursor ==
  /\ \A t \in Threads :
       (pc[t] = "call" /\ self[t] = "a") => this[t] = Precursor["a"]
  /\ \A i \in Oks("a") :
       /\ invocations["a"][i].v \in OkResults("a")
       /\ value["a"] = That(invocations["a"][i].v)

\* C3: a try_get_or_create whose transform fails with e returns Err(e) and
\* leaves the flag false, the original precursor in the slot and the lock
\* free and not poisoned (so get() returns None); every transform invoked on
\* the cell receives the original precursor, and a transform that succeeds
\* after the failure stores its result of that precursor.
C3_FailedTryKeepsPrecursor ==
  [][ /\ \A t \in Threads :
           (Returns(t) /\ op[t] = "try_get_or_create" /\ last'.kind = "Err") =>
             /\ pc[t] = "call"
             /\ invocations'[self[t]] =
                  Append(invocations[self[t]],
                         [op |-> "try_get_or_create", kind |-> "Err",
                          v |-> last'.v])
             /\ ~initialized'[self[t]]
             /\ value'[self[t]] = value[self[t]]
             /\ value[self[t]] = This(this[t])
             /\ self[t] = "a" => value'["a"] = This(Precursor["a"])
             /\ lock'[self[t]] = 0
             /\ ~poisoned'[self[t]]
      /\ TransformsThePrecursor'
    ]_vars

\* C3 witness: after a failed try_get_or_create a later transform has
\* succeeded on the original precursor and the cell is initialized.
C3_Witness ==
  /\ Len(invocations["a"]) = 2
  /\ invocations["a"][1].op = "try_get_or_create"
  /\ invocations["a"][1].kind = "Err"
  /\ invocations["a"][2].kind = "Ok"
  /\ initialized["a"]
  /\ value["a"] = That(invocations["a"][2].v)
  /\ LastInit("a") /\ last.kind \in {"Ref", "Ok"}

\* C4 as stated: once a transform of get_or_create_or_poison has failed on
\* cell a, every call of get_or_create_or_poison that returns afterwards
\* returns Err(None) and has not invoked its transform.
C4_AlwaysErrNone ==
  (ErrPoisoned("a") /\ last.self = "a"
     /\ last.op = "get_or_create_or_poison" /\ last.kind # "ErrSome") =>
    (last.kind = "ErrNone" /\ ~last.ran)

\* C4 as amended: the failing call returns Err(Some(e)) and leaves the slot
\* empty and the flag false; afterwards no transform is invoked on the cell,
\* and a call of get_or_create_or_poison returns Err(None) as long as the
\* lock is not poisoned; the lock becomes poisoned only by a get_or_create or
\* try_get_or_create that panics on the empty slot, and from then on
\* get_or_create_or_poison panics at the lock acquisition.
C4_PoisonedByError ==
  [][ /\ (last'.op = "get_or_create_or_poison" /\ last'.kind = "ErrSome") =>
           /\ last'.ran
           /\ invocations'[last'.self] # << >>
           /\ invocations'[last'.self][Len(invocations'[last'.self])] =
                [op |-> "get_or_create_or_poison", kind |-> "Err",
                 v |-> last'.v]
           /\ last' # last => (value'[last'.self] = None
                                 /\ ~initialized'[last'.self])
      /\ ErrPoisoned("a") =>
           /\ invocations'["a"] = invocations["a"]
           /\ value'["a"] = None
           /\ ~initialized'["a"]
           /\ (~poisoned["a"] /\ poisoned'["a"]) =>
                (last'.kind = "PanicUnwrap" /\ last'.self = "a"
                   /\ last'.op \in {"get_or_create", "try_get_or_create"})
           /\ (last' # last /\ last'.self = "a"
                 /\ last'.op = "get_or_create_or_poison") =>
                /\ ~last'.ran
                /\ last'.kind =
                     IF poisoned["a"] THEN "PanicLock" ELSE "ErrNone"
    ]_vars

\* C4 witness: after the failure a later get_or_create_or_poison has
\* returned Err(None) without invoking its transform.
C4_Witness ==
  /\ ErrPoisoned("a")
  /\ last.self = "a" /\ last.op = "get_or_create_or_poison"
  /\ last.kind = "ErrNone" /\ ~last.ran
  /\ value["a"] = None /\ ~initialized["a"]

\* C5: once a transform of get_or_create_or_poison has failed on cell a, no
\* transform is invoked on a again, a never becomes ready, and every
\* initializing accessor that returns afterwards reports the poisoning:
\* Err(None), or a panic at the empty slot or at the poisoned lock.
C5_ErrorPoisonIsTerminal ==
  ErrPoisoned("a") =>
    /\ LastEntry("a").op = "get_or_create_or_poison"
    /\ LastEntry("a").kind = "Err"
    /\ ~initialized["a"]
    /\ value["a"] = None
    /\ (LastInit("a") /\ last.kind # "ErrSome") =>
         /\ ~last.ran
         /\ last.kind = (IF last.op = "get_or_create_or_poison"
                           THEN (IF poisoned["a"] THEN "PanicLock" ELSE "ErrNone")
                           ELSE "PanicUnwrap")
              \/ last.kind = "PanicLock"

\* C5 witness: on the cell poisoned by an error a try_get_or_create has
\* panicked at the empty slot.
C5_Witness ==
  /\ ErrPoisoned("a")
  /\ last.self = "a" /\ last.op = "try_get_or_create"
  /\ last.kind = "PanicUnwrap" /\ ~last.ran

\* C6: once a transform has panicked on cell a, the flag of a stays false,
\* no transform is invoked on a again, and every initializing accessor that
\* returns afterwards has panicked at the lock acquisition.
C6_PanicPoisonIsTerminal ==
  Panicked("a") =>
    /\ LastEntry("a").kind = "Panic"
    /\ ~initialized["a"]
    /\ poisoned["a"]
    /\ (LastInit("a") /\ last.kind # "PanicF") =>
         (last.kind = "PanicLock" /\ ~last.ran)

\* C6 witness: after a panic of a transform of try_get_or_create, which
\* leaves the precursor in the slot, a later accessor has panicked at the lock.
C6_Witness ==
  /\ Panicked("a")
  /\ LastEntry("a").op = "try_get_or_create"
  /\ value["a"] = This(Precursor["a"])
  /\ LastInit("a") /\ last.kind = "PanicLock"

\* The step is taken by a get of thread t on c that returns.
GetReturns(t, c) ==
  /\ pc[t] \in {"gload", "gextract"}
  /\ self[t] = c
  /\ pc'[t] = "idle"

\* Once a result has been handed out for c: the slot and the flag of c do not
\* change, no transform is invoked on c and a get of c returns Some(result).
Frozen(c) ==
  /\ initialized[c]
  /\ returned[c] = {value[c].v}
  /\ value[c].tag = "That"
  /\ value'[c] = value[c]
  /\ initialized'[c]
  /\ invocations'[c] = invocations[c]
  /\ \A t \in Threads : GetReturns(t, c) => last' =
       [op |-> "get", self |-> c, kind |-> "Some", v |-> value[c].v,
        ran |-> FALSE]

\* C7 as stated: once an accessor has returned a result of a cell, neither
\* the slot nor the flag changes, no transform is invoked on the cell, and
\* every get returns Some(result), whatever operations follow.
C7_NeverOverwritten ==
  [][\A c \in Cells : returned[c] # {} => Frozen(c)]_vars

\* C7 as amended: the same, for every operation but an assignment to the
\* cell itself (b = a.clone(), b.clone_from(&a)), which replaces its contents.
C7_FrozenUntilAssigned ==
  [][\A c \in Cells :
       (returned[c] # {} /\ \A t \in Threads : ~Holds(t, c)) => Frozen(c)]_vars

\* C7 witness: a result of cell a has been handed out, the call that has
\* transformed a has returned, and a get has returned Some(result).
C7_Witness ==
  /\ returned["a"] # {}
  /\ \A t \in Threads : pc[t] = "idle"
  /\ last = [op |-> "get", self |-> "a", kind |-> "Some", v |-> value["a"].v,
             ran |-> FALSE]
  /\ calls >= 2

\* No call is running on c.
Quiescent(c) == \A t \in Threads : ~Uses(t, c)

\* C8: whenever no call is running on a cell, its flag is true if and only
\* if its slot holds a result (invariant I1 at the states between operations).
C8_ReadyIffResult ==
  \A c \in Cells : Quiescent(c) => (initialized[c] <=> value[c].tag = "That")

\* C9: a thread that has loaded the flag as true, in get or for the final
\* read of an initializing accessor, finds a result in the slot.
C9_SafePublication ==
  \A t \in Threads :
    pc[t] \in {"gextract", "extract"} => value[self[t]].tag = "That"

\* C10: get never holds a lock, is never made to wait and changes neither
\* flag, slot, lock nor poison flag of any cell, and it returns the stored
\* result of a transformed cell; an initializing accessor that loads the flag
\* of a transformed cell as true goes on to the final read without taking
\* the lock and returns the stored result without invoking its transform.
C10_ReadsAreLockFree ==
  [][\A t \in Threads :
       /\ (op[t] = "get" /\ Busy(t)) =>
            /\ \A c \in Cells : lock[c] # t
            /\ ENABLED (GetLoad(t) \/ GetExtract(t))
            /\ pc'[t] # pc[t] =>
                 /\ cellVars' = cellVars
                 /\ invocations' = invocations
                 /\ (initialized[self[t]] /\ value[self[t]].tag = "That"
                       /\ pc'[t] = "idle") =>
                      (last'.kind = "Some" /\ last'.v = value[self[t]].v)
       /\ (pc[t] = "load1" /\ initialized[self[t]] /\ pc'[t] # pc[t]) =>
            /\ pc'[t] = "extract"
            /\ ~ran[t]
            /\ cellVars' = cellVars
       /\ (pc[t] = "extract" /\ pc'[t] # pc[t]) =>
            /\ \A c \in Cells : lock[c] # t
            /\ cellVars' = cellVars
            /\ invocations' = invocations
            /\ last'.ran = ran[t]
            /\ value[self[t]].tag = "That" =>
                 (last'.kind \in {"Ref", "Ok"} /\ last'.v = value[self[t]].v)
    ]_vars

\* C10 witness: a get is about to load the flag while another thread holds
\* the lock of the same cell and runs its transform.
C10_Witness ==
  \E t, s \in Threads :
    /\ pc[t] = "gload"
    /\ pc[s] = "call"
    /\ self[s] = self[t]
    /\ lock[self[s]] = s

\* The step consumes cell c.
Consumes(c) == Alive(c) /\ value'[c] = Moved

\* A transform has panicked on c inside an accessor that had moved the
\* precursor out of the slot.
PanickedEmpty(c) ==
  \E i \in Entries(c) :
    invocations[c][i].kind = "Panic" /\ Moves(invocations[c][i].op)

\* Every transform invoked on c so far was one of try_get_or_create that did
\* not succeed: no attempt has consumed the precursor.
NotConsumed(c) ==
  \A i \in Entries(c) :
    invocations[c][i].op = "try_get_or_create" /\ invocations[c][i].kind # "Ok"

\* Invariant I1 of cell c: the flag is true iff the slot holds a result.
I1(c) == initialized[c] <=> value[c].tag = "That"

\* C11 as stated: into_inner of cell a returns Ok(result) iff a transform has
\* succeeded on a, Err(original precursor) iff none has, and panics only in a
\* state in which I1 does not hold.
C11_IntoInnerNeverPanics ==
  [][(Consumes("a") /\ last'.op = "into_inner") =>
       /\ last'.kind = "Ok" <=> Oks("a") # {}
       /\ last'.kind = "Err" <=> Oks("a") = {}
       /\ last'.kind = "Err" => last'.v = Precursor["a"]
       /\ last'.kind = "PanicEmpty" => ~I1("a")
    ]_vars

\* C11 as amended: into_inner returns Ok(result) iff the slot holds a result,
\* Err(precursor) iff the slot holds the precursor, and panics iff the slot
\* is empty, without looking at the flag; for cell a, it returns Ok(result)
\* iff a transform has succeeded, panics iff a has been poisoned by an error
\* or by a panic of a transform that had moved the precursor out (I1 holds in
\* these states), and returns Err(original precursor) otherwise.
C11_IntoInnerBySlot ==
  [][\A c \in Cells :
       (Consumes(c) /\ last'.op = "into_inner") =>
         /\ last'.self = c
         /\ last'.kind = "Ok" <=> value[c].tag = "That"
         /\ last'.kind = "Err" <=> value[c].tag = "This"
         /\ last'.kind = "PanicEmpty" <=> value[c] = None
         /\ last'.kind \in {"Ok", "Err"} => last'.v = value[c].v
         /\ c = "a" =>
              /\ last'.kind = "Ok" <=> Oks("a") # {}
              /\ last'.kind = "Ok" => last'.v = LastEntry("a").v
              /\ last'.kind = "PanicEmpty" <=>
                   (ErrPoisoned("a") \/ PanickedEmpty("a"))
              /\ last'.kind = "PanicEmpty" => I1("a")
              /\ last'.kind = "Err" => last'.v = Precursor["a"]
    ]_vars

\* C11 witness: into_inner has panicked on cell a, which had been poisoned by
\* an error with its flag false.
C11_Witness ==
  /\ last = [op |-> "into_inner", self |-> "a", kind |-> "PanicEmpty",
             v |-> 0, ran |-> FALSE]
  /\ ErrPoisoned("a")
  /\ ~initialized["a"]
  /\ value["a"] = Moved

\* C12: try_into_inner of cell a returns Ok(result) iff a transform has
\* succeeded on a, Err(Some(original precursor)) iff no transform attempt has
\* consumed the precursor, and Err(None) iff a has been poisoned by an error
\* returned to get_or_create_or_poison.
C12_ThreeFinalStates ==
  (last.op = "try_into_inner" /\ last.self = "a") =>
    /\ last.kind = "Ok" <=> Oks("a") # {}
    /\ last.kind = "Ok" => last.v = LastEntry("a").v
    /\ last.kind = "ErrSome" <=> NotConsumed("a")
    /\ last.kind = "ErrSome" => last.v = Precursor["a"]
    /\ last.kind = "ErrNone" <=> ErrPoisoned("a")

\* C19: try_into_inner of cell a panics iff a transform has panicked on a,
\* and returns a value in every other state.
C19_PanicsIffPanicPoisoned ==
  (last.op = "try_into_inner" /\ last.self = "a") =>
    (last.kind \notin {"Ok", "ErrSome", "ErrNone"} <=> Panicked("a"))

\* Cell b is a copy of a transformed cell: since b was last assigned to its
\* slot has held nothing but a result, and no transform has been invoked on b.
CloneOfTransformed ==
  /\ value["b"].tag = "That"
  /\ hist["b"] = {value["b"]}
  /\ invocations["b"] = << >>

\* C13: b = a.clone() takes the lock-free branch when a is loaded as ready;
\* the new cell b has the flag and the slot of a (ready with an equal result
\* for a transformed a, not ready with an equal precursor for an
\* untransformed a, copied under a's lock), a free lock of its own and no
\* transform invoked, and a is left as it was; an initializing accessor on a
\* clone of a transformed cell returns that result without invoking its
\* transform; and no step of an accessor or of get on one cell changes the
\* flag, slot or lock of the other cell.
C13_CloneFidelity ==
  [][\A t \in Threads :
       /\ (pc[t] = "cload" /\ pc'[t] # pc[t] /\ initialized["a"]) =>
            (pc'[t] = "ccopy" /\ cellVars' = cellVars)
       /\ (pc[t] \in {"ccopy", "ccopyL"} /\ Returns(t)) =>
            /\ last'.kind = "Cell"
            /\ value'["b"] = value["a"]
            /\ initialized'["b"] = initialized["a"]
            /\ lock'["b"] = 0
            /\ ~poisoned'["b"]
            /\ invocations'["b"] = << >>
            /\ value'["a"] = value["a"]
            /\ initialized'["a"] = initialized["a"]
            /\ I1("a")
            /\ I1("b")'
            /\ value["a"].tag # "That" =>
                 (pc[t] = "ccopyL" /\ lock["a"] = t /\ lock'["a"] = 0)
            /\ value["a"].tag = "This" => value'["b"] = This(Precursor["a"])
       /\ (Busy(t) /\ op[t] \in InitOps \cup {"get"} /\ pc'[t] # pc[t]) =>
            \A c \in Cells \ {self[t]} :
              /\ initialized'[c] = initialized[c]
              /\ value'[c] = value[c]
              /\ lock'[c] = lock[c]
              /\ poisoned'[c] = poisoned[c]
       /\ (CloneOfTransformed /\ self[t] = "b" /\ op[t] \in InitOps
             /\ Returns(t)) =>
            /\ last'.kind \in {"Ref", "Ok"}
            /\ last'.v = value["b"].v
            /\ ~last'.ran
            /\ invocations' = invocations
            /\ cellVars' = cellVars
    ]_vars

\* C13 witness: a has been transformed, b is a copy of it, and an
\* initializing accessor on b has returned the result of a without invoking
\* its transform.
C13_Witness ==
  /\ CloneOfTransformed
  /\ initialized["b"]
  /\ value["b"] = value["a"]
  /\ Oks("a") # {}
  /\ LastInit("b")
  /\ last.kind \in {"Ref", "Ok"}
  /\ last.v = LastEntry("a").v
  /\ ~last.ran

\* Thread t is inside the critical section of cell c.
InCritical(t, c) ==
  /\ self[t] = c
  /\ pc[t] \in {"load2", "take", "call", "store", "unlock"}

\* The ways a call of an initializing accessor returns: &U, Ok(&U), Err(e),
\* Err(Some(e)), Err(None).
ReturnKinds == {"Ref", "Ok", "Err", "ErrSome", "ErrNone"}

\* C14 as stated: with transforms that return a value or an error, a call of
\* an initializing accessor that has ended has returned (every call returns).
C14_EveryCallReturns ==
  last.op \in InitOps => last.kind \in ReturnKinds

\* C14 as amended: under fair scheduling, with finitely many calls and
\* transforms that return a value or an error, every call of an initializing
\* accessor eventually ends; it ends by returning unless an earlier error has
\* poisoned the cell, in which case a get_or_create or try_get_or_create
\* panics at the empty slot and calls after that panic at the poisoned lock,
\* none invoking its transform; a call can always take its next step except
\* at the lock acquisition, where it can exactly when no thread is inside the
\* critical section; the lock is held exactly by the thread inside the
\* critical section, so it is free again whenever a call has left by any path
\* (success, error, lost race, panic).
C14_EveryCallEnds ==
  /\ \A t \in Threads : Busy(t) ~> ~Busy(t)
  /\ []((last.op \in InitOps /\ last.kind \notin ReturnKinds) =>
          /\ ErrPoisoned("a")
          /\ ~last.ran
          /\ last.kind \in {"PanicUnwrap", "PanicLock"}
          /\ last.kind = "PanicUnwrap" =>
               last.op \in {"get_or_create", "try_get_or_create"}
          /\ poisoned["a"])
  /\ [](\A t \in Threads :
          /\ (Busy(t) /\ pc[t] # "lock") => ENABLED Run(t)
          /\ pc[t] = "lock" =>
               (ENABLED Run(t) <=> \A s \in Threads : ~InCritical(s, self[t]))
          /\ \A c \in Cells : lock[c] = t <=> InCritical(t, c))

\* C14 witness: a try_get_or_create has returned the error of its transform,
\* a thread that was waiting has acquired the lock after it, and another
\* thread waits for the lock.
C14_Witness ==
  /\ last.op = "try_get_or_create" /\ last.kind = "Err" /\ last.ran
  /\ \E t \in Threads : pc[t] = "load2" /\ lock["a"] = t
  /\ \E t \in Threads : pc[t] = "lock"

\* C15: when threads race on get_or_create_or_poison of a fresh cell, at most
\* one closure is ever invoked; no call returns before that invocation; if it
\* has succeeded every call returns Ok with its result; if it has failed with
\* e, the call that invoked it returns Err(Some(e)) in the very step of the
\* failure, no other call ever returns Err(Some(_)), and every other call
\* returns Err(None) without invoking its closure.
C15_PoisonRace ==
  [][ /\ Len(invocations'["a"]) <= 1
      /\ last'.op = "get_or_create_or_poison" =>
           /\ Len(invocations'["a"]) = 1
           /\ invocations'["a"][1].kind = "Ok" =>
                /\ last'.kind = "Ok"
                /\ last'.v = invocations'["a"][1].v
                /\ last'.v \in OkResults("a")
           /\ invocations'["a"][1].kind = "Err" =>
                /\ last'.kind \in {"ErrSome", "ErrNone"}
                /\ last'.kind = "ErrSome" <=> last'.ran
                /\ last'.kind = "ErrSome" => last'.v = invocations'["a"][1].v
      /\ \A t \in Threads :
           /\ (Returns(t) /\ last'.kind = "ErrSome") =>
                (pc[t] = "call" /\ invocations["a"] = << >>)
           /\ (pc[t] = "call" /\ pc'[t] # pc[t]
                 /\ invocations'["a"][1].kind = "Err") =>
                (Returns(t) /\ last'.kind = "ErrSome" /\ last'.ran)
    ]_vars

\* C15 witness: the one invocation has failed, a racing call has returned
\* Err(None) without invoking its closure, and a further call is waiting.
C15_Witness ==
  /\ Len(invocations["a"]) = 1
  /\ invocations["a"][1].kind = "Err"
  /\ last.op = "get_or_create_or_poison"
  /\ last.kind = "ErrNone"
  /\ ~last.ran
  /\ \E t \in Threads : pc[t] = "lock"

\* C16: b.clone_from(&a) takes the lock-free branch exactly when a is loaded
\* as ready, and when it returns b has the flag and the slot of a, as a fresh
\* a.clone() would have.
C16_CloneFromLikeClone ==
  [][\A t \in Threads :
       /\ (pc[t] = "fload" /\ pc'[t] # pc[t]) =>
            (pc'[t] = "fcopy" <=> initialized[source])
       /\ (op[t] = "clone_from" /\ Returns(t) /\ last'.kind = "Unit") =>
            /\ value'["b"] = value[source]
            /\ initialized'["b"] = initialized[source]
    ]_vars

\* C17 as stated: when b = a.clone() copies the slot of a, no other thread
\* is inside the critical section of a, and the clone is either not ready
\* with the original precursor or ready with the final result.
C17_CloneOutsideCriticalSection ==
  [][\A t \in Threads :
       (pc[t] \in {"ccopy", "ccopyL"} /\ Returns(t)) =>
         /\ \A s \in Threads \ {t} : ~InCritical(s, "a")
         /\ \/ /\ ~initialized'["b"]
               /\ value'["b"] = This(Precursor["a"])
            \/ /\ initialized'["b"]
               /\ value'["b"].tag = "That"
               /\ value'["b"].v \in OkResults("a")
    ]_vars

\* C17 as amended: when b = a.clone() copies the slot of a, no other thread
\* is between reading the precursor out of a's slot and storing a's flag (a
\* thread may still hold the lock before it has read the flag under it or
\* after the result is published, and then the copy is made without the lock
\* from a ready cell); the clone is not ready with the original precursor,
\* or ready with the result of the one successful transform, or, only if an
\* error has poisoned a, not ready and empty; its flag agrees with its slot.
C17_CloneNeverSeesInterim ==
  [][\A t \in Threads :
       (pc[t] \in {"ccopy", "ccopyL"} /\ Returns(t)) =>
         /\ \A s \in Threads \ {t} :
              self[s] = "a" => pc[s] \notin {"take", "call", "store"}
         /\ (\E s \in Threads \ {t} : InCritical(s, "a")) =>
              (pc[t] = "ccopy" /\ initialized["a"] /\ value["a"].tag = "That")
         /\ \/ /\ ~initialized'["b"]
               /\ value'["b"] = This(Precursor["a"])
               /\ Oks("a") = {}
            \/ /\ initialized'["b"]
               /\ Oks("a") # {}
               /\ value'["b"] = That(LastEntry("a").v)
               /\ LastEntry("a").v \in OkResults("a")
            \/ /\ ~initialized'["b"]
               /\ value'["b"] = None
               /\ ErrPoisoned("a")
         /\ I1("b")'
    ]_vars

\* C17 witness: a clone that has loaded the flag as false waits for the lock
\* of a while a get_or_create that has emptied the slot runs its transform.
C17_Witness ==
  \E t, s \in Threads :
    /\ op[t] = "clone" /\ pc[t] = "clock"
    /\ op[s] = "get_or_create" /\ self[s] = "a" /\ pc[s] = "call"
    /\ lock["a"] = s
    /\ value["a"] = None

\* C20: a thread that holds the lock and has read the flag as false never
\* finds a result in the slot, and no call ever ends in the panic "Can't
\* already be initialized!".
C20_DefensivePanicUnreachable ==
  /\ \A t \in Threads :
       pc[t] = "take" =>
         /\ lock[self[t]] = t
         /\ ~initialized[self[t]]
         /\ value[self[t]].tag # "That"
  /\ last.kind # "PanicInit"

\* C20 witness: after a failed try_get_or_create, and while a get has loaded
\* the flag, a thread holds the lock, has read the flag as false and is about
\* to read the precursor.
C20_Witness ==
  \E t, s \in Threads :
    /\ pc[t] = "take"
    /\ lock["a"] = t
    /\ self[t] = "a"
    /\ Len(invocations["a"]) = 1
    /\ value["a"] = This(Precursor["a"])
    /\ op[s] = "get" /\ self[s] = "a"

\* Thread t is inside a call that its own transform has made.
Reentered(t) ==
  pc[t] \in {"in_load1", "in_lock", "in_blocked", "in_section", "in_extract"}

\* C18: a call of an initializing accessor made by a transform on the cell
\* that is being transformed finds the flag false and the lock held by its
\* own thread; it never enters the critical section (where it would invoke
\* its transform) and never reaches the final read (where it would return a
\* value): it waits for the lock forever, keeping it held, or panics, which
\* ends the outer call with the lock poisoned and no result stored.
C18_ReentranceBlocksOrPanics ==
  [][\A t \in Threads :
       /\ pc'[t] \notin {"in_section", "in_extract"}
       /\ Reentered(t) =>
            /\ lock[self[t]] = t
            /\ ~initialized[self[t]]
            /\ value[self[t]].tag # "That"
            /\ initialized'[self[t]] = initialized[self[t]]
            /\ value'[self[t]] = value[self[t]]
            /\ returned'[self[t]] = returned[self[t]]
            /\ \/ /\ Reentered(t)'
                  /\ lock'[self[t]] = t
                  /\ invocations'[self[t]] = invocations[self[t]]
               \/ /\ pc[t] = "in_lock"
                  /\ Returns(t)
                  /\ last'.kind = "PanicReenter"
                  /\ poisoned'[self[t]]
       /\ pc[t] = "in_blocked" => pc'[t] = "in_blocked"
    ]_vars

\* C18 witness: the inner call of a transform waits for the lock that its
\* own thread holds, and another thread waits for the same lock.
C18_Witness ==
  \E t, s \in Threads :
    /\ pc[t] = "in_blocked"
    /\ lock[self[t]] = t
    /\ pc[s] = "lock"
    /\ self[s] = self[t]
====
